---- MODULE Spec2Model ----
(***************************************************************************)
(* acsync: a lazy, prunable directory traversal (src/fs.rs) and the        *)
(* replicate executor that consumes it (src/main.rs).                      *)
(*                                                                         *)
(* A path is a sequence of components; a component is a sequence of        *)
(* one-character strings.  The first component of an absolute path is      *)
(* RootDir, so Len(path) is Path::components().count().                    *)
(***************************************************************************)
EXTENDS Integers, Sequences, FiniteSets, TLC

VARIABLES
    fs,                      \* the filesystem: existing path -> entry
    listing,                 \* what read_dir() of each source directory gives
    options,                 \* FileSearcherOptions
    filter_path,             \* the FilterPath around the engine, if there is one
    main,                    \* the run of main: its command, its output, its result
    cli,                     \* a call of get_option_value: its inputs and its result
    pending_paths,           \* IntoIter.pending_paths
    current_read_directory,  \* IntoIter.current_read_directory
    offset_depth,            \* IntoIter.offset_depth
    out,                     \* items the engine has returned to a direct caller
    args,                    \* arguments of replicate
    pc,                      \* position of replicate
    stats,                   \* the five counters of replicate
    stdin_reads,             \* lines replicate has read from standard input
    run,                     \* 1 during the first call of replicate, 2 during the second
    first,                   \* outcome of the first call, once it has returned
    fs0,                     \* the filesystem when the current call started
    last                     \* what the last loop iteration of replicate did,
                             \* or which directory the FilterPath rejected

vars == <<fs, listing, options, filter_path, main, cli, pending_paths, current_read_directory,
          offset_depth, out, args, pc, stats, stdin_reads, run, first, fs0, last>>

engine_vars == <<pending_paths, current_read_directory, offset_depth>>
replicate_vars == <<args, pc, stats, stdin_reads, run, first, fs0, last>>

(***************************************************************************)
(* Bounds of the model.                                                    *)
(***************************************************************************)
MaxEntries == 3      \* entries of a source tree below its root
MaxPulls == 8        \* pulls a direct caller of the engine makes

(***************************************************************************)
(* Strings and paths.                                                      *)
(***************************************************************************)
RootDir == <<"/">>
EmptyPath == <<>>

RECURSIVE to_string_lossy(_)
to_string_lossy(path) ==
    IF path = <<>> THEN <<>>
    ELSE IF Len(path) = 1 THEN path[1]
    ELSE IF Len(path) = 2 /\ path[1] = RootDir THEN RootDir \o path[2]
    ELSE to_string_lossy(SubSeq(path, 1, Len(path) - 1)) \o <<"/">> \o path[Len(path)]

contains(s, pat) ==
    \E i \in 0..(Len(s) - Len(pat)) : SubSeq(s, i + 1, i + Len(pat)) = pat

starts_with(s, pat) ==
    Len(pat) <= Len(s) /\ SubSeq(s, 1, Len(pat)) = pat

\* Path::starts_with / strip_prefix work on whole components.
HasPrefix(path, base) ==
    Len(base) <= Len(path) /\ SubSeq(path, 1, Len(base)) = base

strip_prefix(path, base) == SubSeq(path, Len(base) + 1, Len(path))

join(base, rel) == base \o rel

\* Path::parent: None for the empty path and for the root directory.
HasParent(path) == Len(path) >= 1 /\ path # <<RootDir>>
parent(path) == SubSeq(path, 1, Len(path) - 1)

\* Path::extension: the part of the file name after its last dot; none when
\* the name has no dot or its only dot is the first character.
NoExtension == <<"<none>">>
extension(path) ==
    IF path = <<>> \/ path = <<RootDir>> THEN NoExtension
    ELSE LET name == path[Len(path)]
             dots == {i \in 1..Len(name) : name[i] = "."}
         IN IF dots = {} THEN NoExtension
            ELSE LET d == CHOOSE i \in dots : \A j \in dots : j <= i
                 IN IF d = 1 THEN NoExtension
                    ELSE SubSeq(name, d + 1, Len(name))

(***************************************************************************)
(* The filesystem.                                                         *)
(***************************************************************************)
exists(path) == path \in DOMAIN fs
is_dir(path) == path \in DOMAIN fs /\ fs[path].kind = "dir"
is_file(path) == path \in DOMAIN fs /\ fs[path].kind = "file"

FsExists(f, path) == path \in DOMAIN f
FsIsDir(f, path) == path \in DOMAIN f /\ f[path].kind = "dir"
FsIsFile(f, path) == path \in DOMAIN f /\ f[path].kind = "file"

\* MetadataExt::size: the byte length of a file, the st_size of a directory.
size(entry) == IF entry.kind = "file" THEN Len(entry.content) ELSE entry.dsize

(***************************************************************************)
(* The traversal engine (src/fs.rs).  Its state is passed around as a      *)
(* record st of the three fields of IntoIter that change.                  *)
(***************************************************************************)
UsizeMax == 1000     \* stands for usize::MAX: larger than any depth

NoReadDir == [open |-> FALSE, dir |-> <<>>, rest |-> <<>>]

PathItem(p) == [tag |-> "Path", path |-> p]
DeferredPath(p) == [tag |-> "DeferredPath", path |-> p]

NoneItem == [type |-> "none", path |-> <<>>]
OkItem(p) == [type |-> "ok", path |-> p]
ErrItem == [type |-> "err", path |-> <<>>]

\* FileSearcher::new: the start path is kept when it is a file or a
\* directory, and is the default (empty) path otherwise.
FileSearcherNew(start_path) ==
    IF is_file(start_path) \/ is_dir(start_path) THEN start_path ELSE EmptyPath

\* FileSearcher::into_iter
into_iter(start_path) ==
    [pending_paths |-> <<PathItem(start_path)>>,
     current_read_directory |-> NoReadDir,
     offset_depth |-> Len(start_path)]

\* Path::read_dir
read_dir_at_end(path) == [open |-> TRUE, dir |-> path, rest |-> <<>>]

read_dir(path) ==
    [open |-> TRUE, dir |-> path, rest |-> listing[path].items]

\* Line 124: a child is queued when its depth is at most max_depth.
WithinDepthStrict(current_depth) == current_depth < options.max_depth

WithinDepth(current_depth) == current_depth <= options.max_depth

\* Line 126: a child goes on the front of the queue.
PushFrontTwice(pending, path) == <<PathItem(path), PathItem(path)>> \o pending

PushFront(pending, path) == <<PathItem(path)>> \o pending

\* Line 129: a failed entry is returned; the listing stays open behind it.
ReadFailedClosing(st1) ==
    [st |-> [st1 EXCEPT !.current_read_directory = NoReadDir], err |-> TRUE]

ReadFailed(st1) == [st |-> st1, err |-> TRUE]

\* The for loop over the open listing: children that are files or
\* directories within max_depth are pushed on the front of the queue; the
\* loop stops at the first failed entry, leaving the listing open behind it.
RECURSIVE ReadEntries(_)
ReadEntries(st) ==
    LET rd == st.current_read_directory
    IN IF rd.rest = <<>> THEN [st |-> st, err |-> FALSE]
       ELSE LET entry == Head(rd.rest)
                st1 == [st EXCEPT !.current_read_directory.rest = Tail(rd.rest)]
            IN IF entry.err THEN ReadFailed(st1)
               ELSE LET path == Append(rd.dir, entry.name)
                        current_depth == Len(path) - st.offset_depth
                    IN IF (is_file(path) \/ is_dir(path))
                          /\ WithinDepth(current_depth)
                       THEN ReadEntries([st1 EXCEPT !.pending_paths =
                                            PushFront(@, path)])
                       ELSE ReadEntries(st1)

\* Line 142: the directory popped from st (leaving st1) cannot be opened.
OpenFailedDropping(st, st1) ==
    [st |-> [st1 EXCEPT !.pending_paths = <<>>], item |-> ErrItem]

OpenFailed(st, st1) == [st |-> st1, item |-> ErrItem]

\* Lines 145-146: the deferred marker goes on the front of the queue.
PushDeferredBack(pending, path) == Append(pending, DeferredPath(path))

PushDeferred(pending, path) == <<DeferredPath(path)>> \o pending

\* Lines 155-159: nothing is queued and no listing is open.
ExhaustedRestarts(st) ==
    [st |-> [st EXCEPT !.pending_paths = <<PathItem(EmptyPath)>>],
     item |-> NoneItem]

Exhausted(st) == [st |-> st, item |-> NoneItem]

RECURSIVE inner_next(_)
inner_next(st) ==
    IF st.pending_paths = <<>> /\ ~st.current_read_directory.open
    THEN Exhausted(st)
    ELSE IF st.current_read_directory.open
    THEN LET r == ReadEntries(st)
         IN IF r.err THEN [st |-> r.st, item |-> ErrItem]
            ELSE inner_next([r.st EXCEPT !.current_read_directory = NoReadDir])
    ELSE LET entry_path == Head(st.pending_paths)
             pending_path == entry_path.path
             st1 == [st EXCEPT !.pending_paths = Tail(@)]
         IN IF entry_path.tag = "DeferredPath"
            THEN [st |-> st1, item |-> OkItem(pending_path)]
            ELSE IF is_dir(pending_path)
            THEN IF listing[pending_path].openfail
                 THEN OpenFailed(st, st1)
                 ELSE LET st2 == [st1 EXCEPT !.current_read_directory =
                                                 read_dir(pending_path)]
                      IN IF options.overall
                         THEN inner_next([st2 EXCEPT !.pending_paths =
                                             PushDeferred(@, pending_path)])
                         ELSE [st |-> st2, item |-> OkItem(pending_path)]
            ELSE [st |-> st1, item |-> OkItem(pending_path)]

\* IntoIter::skip_current_directory
skip_current_directory_keeps(st) == st

skip_current_directory(st) == [st EXCEPT !.current_read_directory = NoReadDir]

\* The three filters of IntoIter::next.
to_excludes_name(path) ==
    IF options.excludes = <<>> \/ path = <<>> THEN FALSE
    ELSE \E i \in 1..Len(options.excludes) :
            contains(path[Len(path)], options.excludes[i])

to_excludes(path) ==
    IF options.excludes = <<>> THEN FALSE
    ELSE \E i \in 1..Len(options.excludes) :
            contains(to_string_lossy(path), options.excludes[i])

to_includes(path) ==
    IF options.includes = <<>> THEN TRUE
    ELSE \E i \in 1..Len(options.includes) :
            contains(to_string_lossy(path), options.includes[i])

to_includes_extensions(path) ==
    IF options.extensions = <<>> THEN TRUE
    ELSE IF extension(path) # NoExtension
    THEN \E i \in 1..Len(options.extensions) :
            extension(path) = options.extensions[i]
    ELSE FALSE

\* IntoIter::next
RECURSIVE next(_)
next(st) ==
    LET r == inner_next(st)
    IN IF r.item.type = "none" THEN r
       ELSE IF r.item.type = "err" THEN r
       ELSE LET path == r.item.path
            IN IF to_excludes(path)
               THEN IF is_dir(path) THEN next(skip_current_directory(r.st))
                    ELSE next(r.st)
               ELSE IF ~to_includes(path) THEN next(r.st)
               ELSE IF ~to_includes_extensions(path) THEN next(r.st)
               ELSE r

\* The predicate of the FilterPath: it rejects the paths in rejects.
predicate(path) == path \notin filter_path.rejects

\* FilterPath::next
RECURSIVE filter_path_next(_)
filter_path_next(st) ==
    LET r == next(st)
    IN IF r.item.type = "none" THEN r
       ELSE IF r.item.type = "err" THEN r
       ELSE LET path == r.item.path
            IN IF ~predicate(path)
               THEN IF is_dir(path)
                    THEN filter_path_next(skip_current_directory(r.st))
                    ELSE filter_path_next(r.st)
               ELSE r

\* The directories the predicate rejects during one call of FilterPath::next.
RECURSIVE rejected_directories(_)
rejected_directories(st) ==
    LET r == next(st)
    IN IF r.item.type # "ok" \/ predicate(r.item.path) THEN {}
       ELSE IF is_dir(r.item.path)
       THEN {r.item.path} \cup rejected_directories(skip_current_directory(r.st))
       ELSE rejected_directories(r.st)

EngineState ==
    [pending_paths |-> pending_paths,
     current_read_directory |-> current_read_directory,
     offset_depth |-> offset_depth]

SetEngine(st) ==
    /\ pending_paths' = st.pending_paths
    /\ current_read_directory' = st.current_read_directory
    /\ offset_depth' = st.offset_depth

(***************************************************************************)
(* The trees the model runs on.                                            *)
(***************************************************************************)
SourceRoot == <<RootDir, <<"s">>>>
TargetRoot == <<RootDir, <<"t">>>>

NameA == <<"a">>
NameBT == <<"b", ".", "t">>
NameC == <<"c">>
NameD == <<"d">>

\* The entries a source tree may have, relative to its root.
Universe ==
    {<<NameA>>, <<NameA, NameBT>>, <<NameC>>, <<NameA, NameD>>,
     <<NameA, NameD, NameBT>>}

KindOf(rel) == IF rel # <<>> /\ rel[Len(rel)] = NameBT THEN "file" ELSE "dir"

PrefixClosed(set) ==
    \A rel \in set : Len(rel) > 1 => SubSeq(rel, 1, Len(rel) - 1) \in set

\* A source tree is the set of its entries, the root <<>> among them; the
\* empty set is a source root that does not exist.
Trees ==
    {tree \cup {<<>>} : tree \in {t \in SUBSET Universe :
                                    PrefixClosed(t) /\ Cardinality(t) <= MaxEntries}}

MissingTree == {}

Now == 9             \* the time of the run: later than every initial time

SourceEntry(rel) ==
    IF KindOf(rel) = "dir"
    THEN [kind |-> "dir", content |-> <<>>, dsize |-> 4, mtime |-> 2,
          perm |-> 5 + Len(rel)]
    ELSE [kind |-> "file", content |-> <<1, 2>>, dsize |-> 0, mtime |-> 2,
          perm |-> 4]

\* What a target entry may look like before the run, against a source entry
\* of time 2 and size 2 (file) or 4 (directory).
TargetVariants(rel) ==
    IF KindOf(rel) = "dir"
    THEN {[kind |-> "dir", content |-> <<>>, dsize |-> 4, mtime |-> 3, perm |-> 3],
          [kind |-> "dir", content |-> <<>>, dsize |-> 5, mtime |-> 1, perm |-> 3]}
    ELSE {[kind |-> "file", content |-> <<3, 4>>, dsize |-> 0, mtime |-> 1, perm |-> 3],
          [kind |-> "file", content |-> <<1>>, dsize |-> 0, mtime |-> 1, perm |-> 3],
          [kind |-> "file", content |-> <<1>>, dsize |-> 0, mtime |-> 2, perm |-> 3]}

TheRoot == [kind |-> "dir", content |-> <<>>, dsize |-> 4, mtime |-> 1, perm |-> 7]

\* A filesystem holding the source tree under SourceRoot and the entries
\* tgt under TargetRoot.
MakeFs(tree, tgt) ==
    LET srcs == {join(SourceRoot, rel) : rel \in tree}
        tgts == {join(TargetRoot, rel) : rel \in DOMAIN tgt}
    IN [path \in {<<RootDir>>} \cup srcs \cup tgts |->
            IF path = <<RootDir>> THEN TheRoot
            ELSE IF path \in srcs THEN SourceEntry(strip_prefix(path, SourceRoot))
            ELSE tgt[strip_prefix(path, TargetRoot)]]

Orders(set) ==
    {seq \in [1..Cardinality(set) -> set] :
        \A i, j \in 1..Cardinality(set) : seq[i] = seq[j] => i = j}

ChildNames(tree, rel) ==
    {child[Len(child)] : child \in {c \in tree : Len(c) = Len(rel) + 1
                                                 /\ SubSeq(c, 1, Len(rel)) = rel}}

DirsOf(tree) == {rel \in tree : KindOf(rel) = "dir"}

OkEntry(name) == [err |-> FALSE, name |-> name]
ErrEntry == [err |-> TRUE, name |-> <<>>]

\* The orders in which the directories of the tree may list their children.
Listings(tree) ==
    {[path \in {join(SourceRoot, rel) : rel \in DirsOf(tree)} |->
         [openfail |-> FALSE,
          items |-> [i \in DOMAIN order[strip_prefix(path, SourceRoot)] |->
                        OkEntry(order[strip_prefix(path, SourceRoot)][i])]]] :
       order \in {f \in [DirsOf(tree) -> UNION {Orders(ChildNames(tree, rel)) :
                                                   rel \in DirsOf(tree)}] :
                     \A rel \in DirsOf(tree) :
                        f[rel] \in Orders(ChildNames(tree, rel))}}

InsertAt(seq, i, e) == SubSeq(seq, 1, i) \o <<e>> \o SubSeq(seq, i + 1, Len(seq))

\* The same listings with one fault: a directory that cannot be opened, or
\* one entry of one listing that cannot be read.
FaultyListings(tree) ==
    UNION {{[l EXCEPT ![path].openfail = TRUE] : path \in DOMAIN l}
           \cup UNION {{[l EXCEPT ![path].items = InsertAt(@, i, ErrEntry)] :
                           i \in 0..Len(l[path].items)} : path \in DOMAIN l}
           : l \in Listings(tree)}

PatternLists ==
    {<<>>, <<<<"a">>>>, <<<<".", "t">>>>, <<<<"d">>, <<"c">>>>}

ExtensionLists == {<<>>, <<<<"t">>>>}

Depths == {0, 1, 2, UsizeMax}

NoStats ==
    [file_copied_count |-> 0, file_dated_count |-> 0, file_overrided_count |-> 0,
     directory_created_count |-> 0, file_count |-> 0]

NoLast == [kind |-> "none"]

NoFilterPath == [wrapped |-> FALSE, rejects |-> {}]

NoMain == [command |-> [kind |-> "none"], stdout |-> <<>>, result |-> "none"]

NoCli == [called |-> FALSE]

\* The FilterPath wrappers of the model: each rejects one path of the tree.
FilterPaths(tree) ==
    {[wrapped |-> TRUE, rejects |-> {join(SourceRoot, rel)}] : rel \in tree}

\* What a caller that owns the engine starts from, whatever the tree, the
\* options and the wrapper are.
InitCaller ==
    /\ main = NoMain
    /\ cli = NoCli
    /\ LET st == into_iter(FileSearcherNew(SourceRoot))
       IN /\ pending_paths = st.pending_paths
          /\ current_read_directory = st.current_read_directory
          /\ offset_depth = st.offset_depth
    /\ out = <<>>
    /\ args = [source |-> SourceRoot, target |-> TargetRoot,
               override_question |-> FALSE, dryrun |-> FALSE]
    /\ pc = "engine"
    /\ stats = NoStats
    /\ stdin_reads = 0
    /\ run = 0
    /\ first = [pc |-> "none", stats |-> NoStats]
    /\ fs0 = fs
    /\ last = NoLast

\* A caller that owns the engine and pulls from it directly.
InitEngine ==
    /\ \E tree \in Trees \cup {MissingTree} :
          /\ fs = MakeFs(tree, <<>>)
          /\ listing \in Listings(tree) \cup FaultyListings(tree)
    /\ filter_path = NoFilterPath
    /\ options \in [overall : BOOLEAN, max_depth : Depths, includes : PatternLists,
                    excludes : PatternLists, extensions : ExtensionLists]
    /\ InitCaller

\* A caller that pulls from the engine through a FilterPath.
InitFilter ==
    /\ \E tree \in Trees :
          /\ fs = MakeFs(tree, <<>>)
          /\ listing \in Listings(tree) \cup FaultyListings(tree)
          /\ filter_path \in FilterPaths(tree)
    /\ options \in [overall : BOOLEAN, max_depth : {1, UsizeMax}, includes : {<<>>},
                    excludes : PatternLists, extensions : {<<>>}]
    /\ InitCaller

\* One call of IntoIter::next by the caller.
Pull ==
    /\ pc = "engine"
    /\ ~filter_path.wrapped
    /\ Len(out) < MaxPulls
    /\ LET r == next(EngineState)
       IN /\ SetEngine(r.st)
          /\ out' = Append(out, r.item)
    /\ UNCHANGED <<fs, listing, options, filter_path, main, cli, replicate_vars>>

\* One call of FilterPath::next by the caller.
FilterPull ==
    /\ pc = "engine"
    /\ filter_path.wrapped
    /\ Len(out) < MaxPulls
    /\ LET r == filter_path_next(EngineState)
           rejected == rejected_directories(EngineState)
       IN /\ SetEngine(r.st)
          /\ out' = Append(out, r.item)
          /\ last' = IF rejected = {} THEN last
                     ELSE [kind |-> "rejected", dirs |-> rejected, pulls |-> Len(out)]
    /\ UNCHANGED <<fs, listing, options, filter_path, main, cli, args, pc, stats, stdin_reads,
                   run, first, fs0>>

NextEngine == Pull

SpecEngine == InitEngine /\ [][NextEngine]_vars

NextFilter == FilterPull

SpecFilter == InitFilter /\ [][NextFilter]_vars

MaxSkips == 1

\* A caller that pulls, through a FilterPath or directly, and in the second
\* case may call skip_current_directory between two pulls.
InitConsumer ==
    /\ \E tree \in Trees :
          /\ fs = MakeFs(tree, <<>>)
          /\ listing \in Listings(tree) \cup FaultyListings(tree)
          /\ filter_path \in {NoFilterPath} \cup FilterPaths(tree)
    /\ options \in [overall : BOOLEAN, max_depth : {1, UsizeMax}, includes : {<<>>},
                    excludes : PatternLists, extensions : {<<>>}]
    /\ InitCaller

\* The caller calls IntoIter::skip_current_directory.
SkipCurrentDirectoryClearsQueue ==
    /\ pc = "engine"
    /\ ~filter_path.wrapped
    /\ IF last.kind = "none" THEN TRUE ELSE last.skips < MaxSkips
    /\ SetEngine([skip_current_directory(EngineState) EXCEPT !.pending_paths = <<>>])
    /\ last' = [kind |-> "skipped",
                dirs |-> (IF last.kind = "none" THEN {} ELSE last.dirs)
                         \cup (IF current_read_directory.open
                               THEN {current_read_directory.dir} ELSE {}),
                skips |-> IF last.kind = "none" THEN 1 ELSE last.skips + 1]
    /\ UNCHANGED <<fs, listing, options, filter_path, main, cli, out, args, pc, stats,
                   stdin_reads, run, first, fs0>>

SkipCurrentDirectory ==
    /\ pc = "engine"
    /\ ~filter_path.wrapped
    /\ IF last.kind = "none" THEN TRUE ELSE last.skips < MaxSkips
    /\ SetEngine(skip_current_directory(EngineState))
    /\ last' = [kind |-> "skipped",
                dirs |-> (IF last.kind = "none" THEN {} ELSE last.dirs)
                         \cup (IF current_read_directory.open
                               THEN {current_read_directory.dir} ELSE {}),
                skips |-> IF last.kind = "none" THEN 1 ELSE last.skips + 1]
    /\ UNCHANGED <<fs, listing, options, filter_path, main, cli, out, args, pc, stats,
                   stdin_reads, run, first, fs0>>

NextConsumer == Pull \/ FilterPull \/ SkipCurrentDirectory

SpecConsumer == InitConsumer /\ [][NextConsumer]_vars

(***************************************************************************)
(* Filesystem mutations used by replicate.  Each returns the new           *)
(* filesystem and whether the call succeeded.                              *)
(***************************************************************************)
\* DirBuilder::new().create(path): fails when the path exists or its parent
\* is not an existing directory.
create(f, path) ==
    IF FsExists(f, path) \/ ~HasParent(path) \/ ~FsIsDir(f, parent(path))
    THEN [ok |-> FALSE, fs |-> f]
    ELSE [ok |-> TRUE,
          fs |-> [p \in DOMAIN f \cup {path} |->
                     IF p = path
                     THEN [kind |-> "dir", content |-> <<>>, dsize |-> 4,
                           mtime |-> Now, perm |-> 0]
                     ELSE IF p = parent(path) THEN [f[p] EXCEPT !.mtime = Now]
                     ELSE f[p]]]

\* std::fs::set_permissions
set_permissions(f, path, perm) ==
    IF ~FsExists(f, path) THEN [ok |-> FALSE, fs |-> f]
    ELSE [ok |-> TRUE, fs |-> [f EXCEPT ![path].perm = perm]]

\* std::fs::copy(from, to): from must be a regular file; to is created or
\* truncated, and gets the content and the permission bits of from.
copy(f, from, to) ==
    IF ~FsIsFile(f, from) \/ FsIsDir(f, to) \/ ~HasParent(to)
       \/ ~FsIsDir(f, parent(to))
    THEN [ok |-> FALSE, fs |-> f]
    ELSE [ok |-> TRUE,
          fs |-> [p \in DOMAIN f \cup {to} |->
                     IF p = to
                     THEN [kind |-> "file", content |-> f[from].content, dsize |-> 0,
                           mtime |-> Now, perm |-> f[from].perm]
                     ELSE IF p = parent(to) /\ ~FsExists(f, to)
                     THEN [f[p] EXCEPT !.mtime = Now]
                     ELSE f[p]]]

(***************************************************************************)
(* replicate (src/main.rs).  The debug flag only prints and is left out.   *)
(* A step of the body works on a context c: the filesystem, the counters,  *)
(* the lines read so far, and whether a `?` has returned an error.         *)
(***************************************************************************)
\* A `?` returns the error: what was done so far stays done.
FailedRollsBack(c) == [c EXCEPT !.err = TRUE, !.fs = fs0]

Failed(c) == [c EXCEPT !.err = TRUE]

\* Creation of one directory with the permission bits of its source
\* counterpart: metadata()?, create()?, the counter, set_permissions()?.
CreateLikeCountOnly(c, source_dir, target_dir) ==
    [c EXCEPT !.stats.directory_created_count = @ + 1]

CreateLike(c, source_dir, target_dir) ==
    IF ~FsExists(c.fs, source_dir) THEN Failed(c)
    ELSE LET made == create(c.fs, target_dir)
         IN IF ~made.ok THEN Failed(c)
            ELSE LET set == set_permissions(made.fs, target_dir,
                                            c.fs[source_dir].perm)
                     c1 == [c EXCEPT !.fs = set.fs,
                                     !.stats.directory_created_count = @ + 1]
                 IN IF set.ok THEN c1 ELSE Failed(c1)

\* Lines 72-84: the target root.
CreateTargetRootAlways(c) ==
    IF FsIsDir(c.fs, args.source) /\ ~FsExists(c.fs, args.target)
    THEN CreateLike(c, args.source, args.target)
    ELSE c

CreateTargetRoot(c) ==
    IF FsIsDir(c.fs, args.source) /\ ~FsExists(c.fs, args.target)
    THEN IF ~args.dryrun THEN CreateLike(c, args.source, args.target) ELSE c
    ELSE c

\* Lines 92-113: the walk up from the target path while the parent is missing.
RECURSIVE AncestorRepair(_, _)
AncestorRepair(c, check_parent_directory) ==
    IF HasParent(check_parent_directory)
       /\ ~FsExists(c.fs, parent(check_parent_directory))
    THEN LET up == parent(check_parent_directory)
         IN IF ~HasPrefix(up, args.target) THEN Failed(c)
            ELSE LET check_source_path_directory ==
                         join(args.source, strip_prefix(up, args.target))
                 IN IF FsIsDir(c.fs, check_source_path_directory)
                    THEN IF ~args.dryrun
                         THEN LET c1 == CreateLike(c, check_source_path_directory, up)
                              IN IF c1.err THEN c1 ELSE AncestorRepair(c1, up)
                         ELSE AncestorRepair(c, up)
                    ELSE AncestorRepair(c, up)
    ELSE c

StdinError == [err |-> TRUE, line |-> <<>>]
StdinLine(line) == [err |-> FALSE, line |-> line]
NoInput == [err |-> FALSE, line |-> <<"<none>">>]

\* Line 118: the target is dated when the source is strictly newer and the
\* sizes differ.
IsDatedEither(source_modified_date, target_modified_date, source_size, target_size) ==
    source_modified_date > target_modified_date \/ source_size # target_size

IsDated(source_modified_date, target_modified_date, source_size, target_size) ==
    source_modified_date > target_modified_date /\ source_size # target_size

\* Line 127: the user is asked only when override_question is set.
AsksAlways == TRUE

AsksOverride == args.override_question

\* Line 132: the answer counts as yes when the line starts with y or Y.
AffirmativeAny(line) == line # <<>>

Affirmative(line) == starts_with(line, <<"y">>) \/ starts_with(line, <<"Y">>)

\* Lines 115-153: what is done with the entry once its ancestors are there.
Classify(c, source_path, target_path, source_size, target_size, input) ==
    IF FsExists(c.fs, target_path)
    THEN IF ~FsExists(c.fs, source_path) THEN Failed(c)
         ELSE LET source_modified_date == c.fs[source_path].mtime
                  target_modified_date == c.fs[target_path].mtime
              IN IF IsDated(source_modified_date, target_modified_date,
                            source_size, target_size)
                 THEN LET c1 == [c EXCEPT !.stats.file_dated_count = @ + 1]
                      IN IF AsksOverride
                         THEN LET c2 == [c1 EXCEPT !.reads = @ + 1]
                              IN IF input.err THEN Failed(c2)
                                 ELSE IF Affirmative(input.line)
                                 THEN IF ~args.dryrun
                                      THEN LET done == copy(c2.fs, source_path, target_path)
                                           IN IF ~done.ok THEN Failed(c2)
                                              ELSE [c2 EXCEPT !.fs = done.fs,
                                                     !.stats.file_overrided_count = @ + 1]
                                      ELSE c2
                                 ELSE c2
                         ELSE c1
                 ELSE c
    ELSE IF FsIsFile(c.fs, source_path)
    THEN IF ~args.dryrun
         THEN LET done == copy(c.fs, source_path, target_path)
              IN IF ~done.ok THEN Failed(c)
                 ELSE [c EXCEPT !.fs = done.fs, !.stats.file_copied_count = @ + 1]
         ELSE c
    ELSE c

\* Lines 87-154: the body of the loop for one yielded path.
Body(c, source_path, input) ==
    IF ~HasPrefix(source_path, args.source) THEN Failed(c)
    ELSE LET relative_path == strip_prefix(source_path, args.source)
             target_path == join(args.target, relative_path)
         IN IF ~FsExists(c.fs, source_path) THEN Failed(c)
            ELSE IF ~FsExists(c.fs, target_path) THEN Failed(c)
            ELSE LET source_size == size(c.fs[source_path])
                     target_size == size(c.fs[target_path])
                     c1 == AncestorRepair(c, target_path)
                 IN IF c1.err THEN c1
                    ELSE LET c2 == Classify(c1, source_path, target_path,
                                            source_size, target_size, input)
                         IN IF c2.err THEN c2
                            ELSE [c2 EXCEPT !.stats.file_count = @ + 1]

\* filter_map(|result| result.ok()): failed items of the engine are dropped.
RECURSIVE paths_iter_next(_)

\* result.ok() is None for a failed item r: filter_map pulls the next one.
DropErrEndsLoop(r) == [st |-> r.st, item |-> NoneItem]

DropErr(r) == paths_iter_next(r.st)

paths_iter_next(st) ==
    LET r == next(st)
    IN IF r.item.type = "err" THEN DropErr(r) ELSE r

Context == [fs |-> fs, stats |-> stats, reads |-> stdin_reads, err |-> FALSE]

SetContext(c) ==
    /\ fs' = c.fs
    /\ stats' = c.stats
    /\ stdin_reads' = c.reads
    /\ pc' = IF c.err THEN "err" ELSE "loop"

Inputs ==
    {StdinError} \cup
    {StdinLine(line) : line \in {<<"y", "\n">>, <<"Y", "\n">>, <<"n", "\n">>,
                                 <<"y", "e", "s", "\n">>, <<>>}}

\* The lines the body may get for this path: any of them when it reads
\* one, and a single placeholder when it reads none.
InputsRead(source_path) ==
    IF Body(Context, source_path, StdinError).reads > stdin_reads
    THEN Inputs ELSE {NoInput}

\* Lines 38-84: the iterator is built and the target root created.
Begin ==
    /\ pc = "start"
    /\ SetEngine(into_iter(FileSearcherNew(args.source)))
    /\ SetContext(CreateTargetRoot(Context))
    /\ last' = NoLast
    /\ UNCHANGED <<listing, options, filter_path, main, cli, out, args, run, first, fs0>>

\* One iteration of the for loop, from the pull to the end of the body.
ProcessEntry ==
    /\ pc = "loop"
    /\ LET r == paths_iter_next(EngineState)
       IN /\ r.item.type = "ok"
          /\ SetEngine(r.st)
          /\ \E input \in InputsRead(r.item.path) :
                LET c == Body(Context, r.item.path, input)
                IN /\ SetContext(c)
                   /\ last' = [kind |-> "entry", source_path |-> r.item.path,
                               input |-> IF c.reads > stdin_reads THEN input
                                         ELSE NoInput,
                               err |-> c.err]
    /\ UNCHANGED <<listing, options, filter_path, main, cli, out, args, run, first, fs0>>

\* The iterator is exhausted: the statistics are printed and Ok returned.
Finish ==
    /\ pc = "loop"
    /\ LET r == paths_iter_next(EngineState)
       IN /\ r.item.type = "none"
          /\ SetEngine(r.st)
    /\ pc' = "done"
    /\ UNCHANGED <<fs, listing, options, filter_path, main, cli, out, args, stats, stdin_reads, run, first,
                   fs0, last>>

\* replicate is called a second time with the same arguments, after a
\* first call that was allowed to change the disk.
Rerun ==
    /\ pc \in {"done", "err"}
    /\ run = 1
    /\ ~args.dryrun
    /\ run' = 2
    /\ first' = [pc |-> pc, stats |-> stats]
    /\ pc' = "start"
    /\ stats' = NoStats
    /\ stdin_reads' = 0
    /\ fs0' = fs
    /\ last' = NoLast
    /\ UNCHANGED <<fs, listing, options, filter_path, main, cli, engine_vars, out, args>>

PrefixClosedUnder(set) ==
    \A rel \in set : rel # <<>> => SubSeq(rel, 1, Len(rel) - 1) \in set

\* The states of the target before the first call: nothing at all, or its
\* root with some of the entries of the source tree below it.
TargetStates(tree) ==
    LET variants == UNION {TargetVariants(rel) : rel \in tree \cup {<<>>}}
    IN UNION {{f \in [dom -> variants] : \A rel \in dom : f[rel] \in TargetVariants(rel)} :
                 dom \in {d \in SUBSET (tree \cup {<<>>}) : PrefixClosedUnder(d)}}

PatternPairs ==
    {[includes |-> <<>>, excludes |-> <<>>],
     [includes |-> <<<<".", "t">>>>, excludes |-> <<>>],
     [includes |-> <<>>, excludes |-> <<<<"a", "/", "d">>>>]}

Init ==
    /\ \E tree \in Trees \cup {MissingTree} :
          /\ \E tgt \in TargetStates(tree) : fs = MakeFs(tree, tgt)
          /\ listing \in Listings(tree)
    /\ \E pair \in PatternPairs :
          options = [overall |-> FALSE, max_depth |-> UsizeMax,
                     includes |-> pair.includes, excludes |-> pair.excludes,
                     extensions |-> <<>>]
    /\ filter_path = NoFilterPath
    /\ main = NoMain
    /\ cli = NoCli
    /\ pending_paths = <<>>
    /\ current_read_directory = NoReadDir
    /\ offset_depth = 0
    /\ out = <<>>
    /\ args \in [source : {SourceRoot}, target : {TargetRoot},
                 override_question : BOOLEAN, dryrun : BOOLEAN]
    /\ pc = "start"
    /\ stats = NoStats
    /\ stdin_reads = 0
    /\ run = 1
    /\ first = [pc |-> "none", stats |-> NoStats]
    /\ fs0 = fs
    /\ last = NoLast

\* replicate on a source where one directory cannot be opened or one entry
\* of a listing cannot be read; the target has every entry of the source.
InitFaulty ==
    /\ \E tree \in Trees :
          /\ \E tgt \in {t \in TargetStates(tree) : DOMAIN t = tree} :
                fs = MakeFs(tree, tgt)
          /\ listing \in FaultyListings(tree)
    /\ options = [overall |-> FALSE, max_depth |-> UsizeMax, includes |-> <<>>,
                  excludes |-> <<>>, extensions |-> <<>>]
    /\ filter_path = NoFilterPath
    /\ main = NoMain
    /\ cli = NoCli
    /\ pending_paths = <<>>
    /\ current_read_directory = NoReadDir
    /\ offset_depth = 0
    /\ out = <<>>
    /\ args \in [source : {SourceRoot}, target : {TargetRoot},
                 override_question : {FALSE}, dryrun : BOOLEAN]
    /\ pc = "start"
    /\ stats = NoStats
    /\ stdin_reads = 0
    /\ run = 1
    /\ first = [pc |-> "none", stats |-> NoStats]
    /\ fs0 = fs
    /\ last = NoLast

Next == Begin \/ ProcessEntry \/ Finish \/ Rerun

SpecFaulty == InitFaulty /\ [][Next]_vars

(***************************************************************************)
(* main (src/main.rs).                                                     *)
(***************************************************************************)
None == [some |-> FALSE]
Some(value) == [some |-> TRUE, value |-> value]

\* What Command::parse makes of the command line: a Replicate command, whose
\* positional arguments may be missing from the second or from the first on,
\* the default Entry command, or nothing when parse_slice ends the process.
Commands ==
    {[kind |-> "Replicate", origin |-> pos[1], destination |-> pos[2],
      override_question |-> q, back |-> FALSE, dryrun |-> d] :
        pos \in {<<None, None>>, <<Some(SourceRoot), None>>,
                 <<Some(SourceRoot), Some(TargetRoot)>>},
        q \in BOOLEAN, d \in BOOLEAN}
    \cup {[kind |-> "Entry"], [kind |-> "exit"]}

say(line) == main' = [main EXCEPT !.stdout = Append(@, line)]

\* Lines 168-207: from the start of main to the call of replicate, or to the
\* result of the match when replicate is not called.
MainParse ==
    /\ pc = "main"
    /\ LET command == main.command
       IN IF command.kind = "exit"
          THEN /\ pc' = "exited"
               /\ UNCHANGED <<main, args>>
          ELSE IF command.kind = "Entry"
          THEN /\ say("help")
               /\ pc' = "result"
               /\ UNCHANGED args
          ELSE LET lines == (IF command.back THEN <<"Syncing back...">> ELSE <<>>)
                            \o (IF command.dryrun THEN <<"Dry run mode...">> ELSE <<>>)
               IN IF ~command.origin.some \/ ~command.destination.some
                  THEN /\ main' = [main EXCEPT !.stdout = @ \o lines,
                                               !.result = "err"]
                       /\ pc' = "returned"
                       /\ UNCHANGED args
                  ELSE /\ main' = [main EXCEPT !.stdout = @ \o lines]
                       /\ pc' = "start"
                       /\ args' = [source |-> IF command.back
                                              THEN command.destination.value
                                              ELSE command.origin.value,
                                   target |-> IF command.back
                                              THEN command.origin.value
                                              ELSE command.destination.value,
                                   override_question |-> command.override_question,
                                   dryrun |-> command.dryrun]
    /\ UNCHANGED <<fs, listing, options, filter_path, cli, engine_vars, out, stats,
                   stdin_reads, run, first, fs0, last>>

\* Lines 209-213: the elapsed time is printed and the result returned.
MainReturn ==
    /\ pc \in {"done", "err", "result"}
    /\ main' = [main EXCEPT !.stdout = Append(@, "Elapsed execution time"),
                            !.result = IF pc = "err" THEN "err" ELSE "ok"]
    /\ pc' = "returned"
    /\ UNCHANGED <<fs, listing, options, filter_path, cli, engine_vars, out, args,
                   stats, stdin_reads, run, first, fs0, last>>

InitMain ==
    /\ \E tree \in Trees \cup {MissingTree} :
          /\ \E tgt \in {t \in TargetStates(tree) : DOMAIN t \in {{}, tree}} :
                fs = MakeFs(tree, tgt)
          /\ listing \in Listings(tree)
    /\ options = [overall |-> FALSE, max_depth |-> UsizeMax, includes |-> <<>>,
                  excludes |-> <<>>, extensions |-> <<>>]
    /\ filter_path = NoFilterPath
    /\ main \in [command : Commands, stdout : {<<>>}, result : {"none"}]
    /\ cli = NoCli
    /\ pending_paths = <<>>
    /\ current_read_directory = NoReadDir
    /\ offset_depth = 0
    /\ out = <<>>
    /\ args = [source |-> EmptyPath, target |-> EmptyPath,
               override_question |-> FALSE, dryrun |-> FALSE]
    /\ pc = "main"
    /\ stats = NoStats
    /\ stdin_reads = 0
    /\ run = 1
    /\ first = [pc |-> "none", stats |-> NoStats]
    /\ fs0 = fs
    /\ last = NoLast

NextMain == MainParse \/ Begin \/ ProcessEntry \/ Finish \/ MainReturn

SpecMain == InitMain /\ [][NextMain]_vars

(***************************************************************************)
(* get_option_value (src/cli_helper.rs).  Indexes count from 0 as in the   *)
(* code; the argument at index i is arguments[i + 1].                      *)
(***************************************************************************)
\* The first argument that starts with --name is looked at for the value
\* after --name=.  The argument of `or` is evaluated whatever that gave:
\* it takes the one argument that follows and, when that is not an option,
\* moves value_index on to it.  value_index starts at 0.
get_option_value(name, arguments) ==
    LET flag == <<"-", "-">> \o name
        found == {i \in 0..(Len(arguments) - 1) : starts_with(arguments[i + 1], flag)}
    IN IF found = {} THEN [value |-> None, index |-> Some(0)]
       ELSE LET i == CHOOSE k \in found : \A j \in found : k <= j
                stripped ==
                    IF starts_with(arguments[i + 1], flag \o <<"=">>)
                    THEN Some(SubSeq(arguments[i + 1], Len(flag) + 2,
                                     Len(arguments[i + 1])))
                    ELSE None
                following ==
                    IF i + 1 < Len(arguments)
                       /\ ~starts_with(arguments[i + 2], <<"-", "-">>)
                    THEN Some(arguments[i + 2])
                    ELSE None
                value_index == IF following.some THEN i + 1 ELSE i
            IN [value |-> IF stripped.some THEN stripped ELSE following,
                index |-> Some(value_index)]

MaxArgs == 3

\* The arguments: --b=q, --b, --d, f and --bx=q.
Tokens ==
    {<<"-", "-", "b", "=", "q">>, <<"-", "-", "b">>, <<"-", "-", "d">>, <<"f">>,
     <<"-", "-", "b", "x", "=", "q">>}

ArgumentLists == UNION {[1..n -> Tokens] : n \in 0..MaxArgs}

InitCli ==
    /\ \E tree \in {{<<>>}} :
          /\ fs = MakeFs(tree, <<>>)
          /\ listing \in Listings(tree)
    /\ options = [overall |-> FALSE, max_depth |-> UsizeMax, includes |-> <<>>,
                  excludes |-> <<>>, extensions |-> <<>>]
    /\ filter_path = NoFilterPath
    /\ main = NoMain
    /\ cli \in [called : {FALSE}, name : {<<"b">>}, arguments : ArgumentLists]
    /\ pending_paths = <<>>
    /\ current_read_directory = NoReadDir
    /\ offset_depth = 0
    /\ out = <<>>
    /\ args = [source |-> EmptyPath, target |-> EmptyPath,
               override_question |-> FALSE, dryrun |-> FALSE]
    /\ pc = "cli"
    /\ stats = NoStats
    /\ stdin_reads = 0
    /\ run = 0
    /\ first = [pc |-> "none", stats |-> NoStats]
    /\ fs0 = fs
    /\ last = NoLast

\* One call of get_option_value.
GetOptionValue ==
    /\ pc = "cli"
    /\ ~cli.called
    /\ cli' = [called |-> TRUE, name |-> cli.name, arguments |-> cli.arguments,
               result |-> get_option_value(cli.name, cli.arguments)]
    /\ UNCHANGED <<fs, listing, options, filter_path, main, engine_vars, out,
                   replicate_vars>>

NextCli == GetOptionValue

SpecCli == InitCli /\ [][NextCli]_vars

Spec == Init /\ [][Next]_vars

(***************************************************************************)
(* Properties.                                                             *)
(***************************************************************************)
\* A step that is one iteration of the loop of replicate.
LoopStep == pc = "loop" /\ pc' \in {"loop", "err"}

TargetOf(source_path) == join(args.target, strip_prefix(source_path, args.source))

\* The iteration is about a yielded path under the source whose target exists.
TargetExisted(source_path) ==
    /\ HasPrefix(source_path, args.source)
    /\ source_path \in DOMAIN fs
    /\ TargetOf(source_path) \in DOMAIN fs

\* The rule of the specification, on the entries as they are before the step.
StaleBefore(source_path) ==
    /\ fs[source_path].mtime > fs[TargetOf(source_path)].mtime
    /\ size(fs[source_path]) # size(fs[TargetOf(source_path)])

SaidYes(input) ==
    /\ ~input.err
    /\ input.line # <<>>
    /\ input.line[1] \in {"y", "Y"}

\* The paths a whole traversal of the source hands to the loop of replicate.
RECURSIVE Drain(_)
Drain(st) ==
    LET r == paths_iter_next(st)
    IN IF r.item.type = "none" THEN {} ELSE {r.item.path} \cup Drain(r.st)

Yielded == Drain(into_iter(FileSearcherNew(args.source)))

NoPatterns == options.includes = <<>> /\ options.excludes = <<>>

SourceFiles == {path \in DOMAIN fs : HasPrefix(path, args.source) /\ is_file(path)}

\* C1: while replicate runs with dryrun set, the filesystem is what it was
\* when the call started, at every point of the call and whatever it returns.
DryRunNonMutation == args.dryrun => fs = fs0

\* A dry run has returned Ok after the user answered yes to a stale file.
DryRunWitness ==
    /\ args.dryrun
    /\ pc = "done"
    /\ stats.file_dated_count > 0
    /\ last.kind = "entry"
    /\ SaidYes(last.input)

\* C2: on a target that does not exist, without patterns and without dryrun,
\* replicate returns Ok, every source file is at its target path with the
\* same content, and files-copied is the number of source files.
EndToEndMirroring ==
    (/\ pc \in {"done", "err"}
     /\ FsIsDir(fs0, args.source)
     /\ args.target \notin DOMAIN fs0
     /\ NoPatterns
     /\ ~args.dryrun)
    => /\ pc = "done"
       /\ \A path \in SourceFiles :
             /\ is_file(TargetOf(path))
             /\ fs[TargetOf(path)].content = fs[path].content
       /\ stats.file_copied_count = Cardinality(SourceFiles)

ScenarioTree == {<<>>, <<NameA>>, <<NameA, NameBT>>, <<NameC>>}

\* C3: replicating {a/b.t, c/} into a target that does not exist returns Ok
\* with files-copied 1, directories-created 2, stale 0, overridden 0 and
\* total-visited 3.
ScenarioStatistics ==
    (/\ pc \in {"done", "err"}
     /\ {path \in DOMAIN fs0 : HasPrefix(path, args.source)}
           = {join(args.source, rel) : rel \in ScenarioTree}
     /\ args.target \notin DOMAIN fs0
     /\ NoPatterns
     /\ ~args.dryrun)
    => /\ pc = "done"
       /\ stats = [file_copied_count |-> 1, file_dated_count |-> 0,
                   file_overrided_count |-> 0, directory_created_count |-> 2,
                   file_count |-> 3]

\* C4: without dryrun, the iteration for a yielded directory whose target
\* does not exist creates the target directory with the permission bits of
\* the source directory and adds one to directories-created.
CreatesDirectory ==
    [][(/\ LoopStep
        /\ ~args.dryrun
        /\ HasPrefix(last'.source_path, args.source)
        /\ is_dir(last'.source_path)
        /\ TargetOf(last'.source_path) \notin DOMAIN fs)
       => /\ FsIsDir(fs', TargetOf(last'.source_path))
          /\ fs'[TargetOf(last'.source_path)].perm = fs[last'.source_path].perm
          /\ stats'.directory_created_count = stats.directory_created_count + 1]_vars

\* C5 as stated: in a second call with the same arguments and dryrun false,
\* nothing is copied, no directory is created, nothing is overridden, and
\* total-visited is that of the first call.
Idempotence ==
    (run = 2 /\ pc \in {"done", "err"} /\ ~args.dryrun)
    => /\ stats.file_copied_count = 0
       /\ stats.directory_created_count = 0
       /\ stats.file_overrided_count = 0
       /\ (pc = "done" /\ first.pc = "done")
             => stats.file_count = first.stats.file_count

\* C5 as amended: the second call copies nothing and creates no directory;
\* it overrides nothing when override_question is false or the first call
\* returned Ok having overwritten every entry it found stale; when both
\* calls return Ok their total-visited counts are equal.
IdempotenceAmended ==
    (run = 2 /\ pc \in {"done", "err"} /\ ~args.dryrun)
    => /\ stats.file_copied_count = 0
       /\ stats.directory_created_count = 0
       /\ (\/ ~args.override_question
           \/ /\ first.pc = "done"
              /\ first.stats.file_dated_count = first.stats.file_overrided_count)
             => stats.file_overrided_count = 0
       /\ (pc = "done" /\ first.pc = "done")
             => stats.file_count = first.stats.file_count

\* Both calls returned Ok; the first overwrote a stale file, the second
\* visited the same entries and found nothing to do.
IdempotenceWitness ==
    /\ run = 2
    /\ pc = "done"
    /\ first.pc = "done"
    /\ ~args.dryrun
    /\ first.stats.file_overrided_count > 0
    /\ first.stats.file_dated_count = first.stats.file_overrided_count
    /\ stats.file_count > 1

\* C6: a dry run returns Ok with files-copied, directories-created and
\* overridden all 0, total-visited the number of yielded entries and stale
\* the number of yielded entries whose existing target is stale.
DryRunStatistics ==
    (args.dryrun /\ pc \in {"done", "err"})
    => /\ pc = "done"
       /\ stats.file_copied_count = 0
       /\ stats.directory_created_count = 0
       /\ stats.file_overrided_count = 0
       /\ stats.file_count = Cardinality(Yielded)
       /\ stats.file_dated_count =
             Cardinality({path \in Yielded : TargetExisted(path) /\ StaleBefore(path)})

\* C7: an entry whose target exists is counted stale exactly when the source
\* is strictly newer and the sizes differ; when it is not stale the step
\* changes nothing on disk and no counter but total-visited.
StaleRule ==
    [][(LoopStep /\ TargetExisted(last'.source_path))
       => /\ stats'.file_dated_count = stats.file_dated_count
                + (IF StaleBefore(last'.source_path) THEN 1 ELSE 0)
          /\ ~StaleBefore(last'.source_path)
                => /\ fs' = fs
                   /\ stats' = [stats EXCEPT !.file_count = @ + 1]]_vars

\* A file of the same size as its newer source, with other content, has been
\* visited and left alone, and nothing was counted stale.
StaleRuleWitness ==
    /\ last.kind = "entry"
    /\ ~last.err
    /\ TargetExisted(last.source_path)
    /\ is_file(last.source_path)
    /\ fs[TargetOf(last.source_path)] = fs0[TargetOf(last.source_path)]
    /\ fs[TargetOf(last.source_path)].content # fs[last.source_path].content
    /\ size(fs[TargetOf(last.source_path)]) = size(fs[last.source_path])
    /\ fs[TargetOf(last.source_path)].mtime < fs[last.source_path].mtime
    /\ stats.file_dated_count = 0
    /\ stats.file_count > 0

\* C8: with override_question false no line is ever read and overridden stays
\* 0; a stale entry adds one to the stale count and leaves the disk alone.
StaleWithoutConfirmation ==
    /\ [](~args.override_question
            => stats.file_overrided_count = 0 /\ stdin_reads = 0)
    /\ [][(/\ LoopStep
           /\ ~args.override_question
           /\ TargetExisted(last'.source_path)
           /\ StaleBefore(last'.source_path))
          => /\ stats'.file_dated_count = stats.file_dated_count + 1
             /\ stdin_reads' = stdin_reads
             /\ fs' = fs
             /\ stats'.file_overrided_count = 0]_vars

\* A run without override_question has returned Ok after a stale file.
StaleWithoutConfirmationWitness ==
    /\ ~args.override_question
    /\ pc = "done"
    /\ stats.file_dated_count > 0
    /\ \E path \in SourceFiles :
          /\ TargetExisted(path)
          /\ StaleBefore(path)

\* C9: with override_question and without dryrun, a stale file is overwritten
\* with the source content and overridden grows by one exactly when the line
\* read starts with y or Y; otherwise the disk and overridden are unchanged.
\* No other step changes an existing file.
ConfirmedOverwrite ==
    /\ [][(/\ LoopStep
           /\ args.override_question
           /\ ~args.dryrun
           /\ TargetExisted(last'.source_path)
           /\ StaleBefore(last'.source_path)
           /\ is_file(last'.source_path)
           /\ is_file(TargetOf(last'.source_path)))
          => IF SaidYes(last'.input)
             THEN /\ fs'[TargetOf(last'.source_path)].content
                        = fs[last'.source_path].content
                  /\ stats'.file_overrided_count = stats.file_overrided_count + 1
             ELSE /\ fs' = fs
                  /\ stats'.file_overrided_count = stats.file_overrided_count]_vars
    /\ [][\A path \in DOMAIN fs :
             (is_file(path) /\ fs'[path] # fs[path])
             => /\ LoopStep
                /\ args.override_question
                /\ ~args.dryrun
                /\ TargetExisted(last'.source_path)
                /\ path = TargetOf(last'.source_path)
                /\ StaleBefore(last'.source_path)
                /\ SaidYes(last'.input)]_vars

\* The user answered Y to a stale file and the file now has the source content.
ConfirmedOverwriteWitness ==
    /\ args.override_question
    /\ ~args.dryrun
    /\ last.kind = "entry"
    /\ ~last.err
    /\ last.input = StdinLine(<<"Y", "\n">>)
    /\ stats.file_overrided_count > 0
    /\ TargetExisted(last.source_path)
    /\ fs[TargetOf(last.source_path)].content = fs[last.source_path].content
    /\ fs0[TargetOf(last.source_path)].content # fs[last.source_path].content

Excluded(path) ==
    \E i \in 1..Len(options.excludes) :
        contains(to_string_lossy(path), options.excludes[i])

\* C10: in either mode, no directory whose path contains an exclude pattern
\* and no entry below such a directory is yielded as an Ok item.
ExcludePrunesSubtree ==
    \A i \in 1..Len(out) :
        out[i].type = "ok"
        => ~\E k \in 1..Len(out[i].path) :
               LET dir == SubSeq(out[i].path, 1, k)
               IN is_dir(dir) /\ Excluded(dir)

\* A post-order traversal has ended and yielded something, on a tree with an
\* excluded directory that has a child whose own name has no exclude pattern.
ExcludePrunesSubtreeWitness ==
    /\ pc = "engine"
    /\ options.overall
    /\ out # <<>>
    /\ out[Len(out)].type = "none"
    /\ \E i \in 1..Len(out) : out[i].type = "ok"
    /\ \E dir \in DOMAIN fs :
          /\ is_dir(dir)
          /\ Excluded(dir)
          /\ \E path \in DOMAIN fs :
                /\ HasPrefix(path, dir)
                /\ path # dir
                /\ \A i \in 1..Len(options.excludes) :
                      ~contains(path[Len(path)], options.excludes[i])

\* Properties of the engine, on the items the caller has pulled so far.

depth(path) == Len(path) - offset_depth

Ended == out # <<>> /\ out[Len(out)].type = "none"

OkPaths == {out[i].path : i \in {j \in 1..Len(out) : out[j].type = "ok"}}

ErrCount == Cardinality({i \in 1..Len(out) : out[i].type = "err"})

SourceEntries == {path \in DOMAIN fs : HasPrefix(path, SourceRoot)}

\* The path or one of the directories above it cannot be opened.
BelowOpenFailure(path) ==
    \E k \in 1..Len(path) :
        LET dir == SubSeq(path, 1, k)
        IN dir \in DOMAIN listing /\ listing[dir].openfail

PassesFilters(path) ==
    ~to_excludes(path) /\ to_includes(path) /\ to_includes_extensions(path)

\* C11: with max_depth d, every yielded entry has depth at most d, nothing
\* deeper than d is queued or opened, and when the traversal has ended every
\* entry at depth exactly d that passes the filters, and that no failure to
\* open a directory cuts off, has been yielded.
DepthBound ==
    /\ \A path \in OkPaths : depth(path) <= options.max_depth
    /\ \A i \in 1..Len(pending_paths) :
          depth(pending_paths[i].path) <= options.max_depth
    /\ current_read_directory.open
       => depth(current_read_directory.dir) <= options.max_depth
    /\ Ended
       => \A path \in SourceEntries :
             (/\ depth(path) = options.max_depth
              /\ PassesFilters(path)
              /\ ~BelowOpenFailure(path))
             => path \in OkPaths

\* A traversal bounded at depth 1 has ended on a tree that goes deeper; it
\* yielded an entry at depth 1.
DepthBoundWitness ==
    /\ pc = "engine"
    /\ Ended
    /\ options.max_depth = 1
    /\ \E path \in SourceEntries : depth(path) = 2
    /\ \E path \in OkPaths : depth(path) = 1

\* C12: every path the loop of replicate receives from the engine has the
\* source root as a prefix, so the relative path can always be computed.
RootContainment ==
    [][LoopStep => HasPrefix(last'.source_path, args.source)]_vars

\* C13: when the root is neither an existing file nor an existing directory,
\* every pull returns None: no Ok and no Err item is ever produced.
MissingRootYieldsNothing ==
    (pc = "engine" /\ ~is_file(SourceRoot) /\ ~is_dir(SourceRoot))
    => \A i \in 1..Len(out) : out[i].type = "none"

\* C14: in either mode, once the predicate of a FilterPath has rejected a
\* directory, that directory is not among the yielded items, no descendant of
\* it is queued or being listed, and no item yielded from the rejecting pull
\* on is a descendant of it.
DecoratorPruning ==
    last.kind = "rejected"
    => \A dir \in last.dirs :
          /\ dir \notin OkPaths
          /\ \A i \in 1..Len(pending_paths) : ~HasPrefix(pending_paths[i].path, dir)
          /\ ~(current_read_directory.open
               /\ HasPrefix(current_read_directory.dir, dir))
          /\ \A i \in (last.pulls + 1)..Len(out) :
                out[i].type = "ok" => ~HasPrefix(out[i].path, dir)

\* A pre-order traversal through a FilterPath has ended after the predicate
\* rejected a directory that has a child the predicate accepts; the traversal
\* went on to yield something after the rejection.
DecoratorPruningWitness ==
    /\ pc = "engine"
    /\ ~options.overall
    /\ Ended
    /\ last.kind = "rejected"
    /\ \E dir \in last.dirs :
          \E path \in SourceEntries :
              /\ HasPrefix(path, dir)
              /\ path # dir
              /\ predicate(path)
              /\ PassesFilters(path)
    /\ \E i \in (last.pulls + 1)..Len(out) : out[i].type = "ok"

\* C15: with a non-empty extension list, a yielded file has one of the listed
\* extensions, and when the traversal has ended every directory within
\* max_depth that passes the exclude and include filters, and that no failure
\* to open a directory cuts off, has been yielded whatever its name.
ExtensionFilterSparesDirectories ==
    (pc = "engine" /\ options.extensions # <<>>)
    => /\ \A path \in OkPaths :
             is_file(path)
             => \E i \in 1..Len(options.extensions) :
                    extension(path) = options.extensions[i]
       /\ Ended
          => \A dir \in SourceEntries :
                (/\ is_dir(dir)
                 /\ depth(dir) <= options.max_depth
                 /\ ~to_excludes(dir)
                 /\ to_includes(dir)
                 /\ ~BelowOpenFailure(dir))
                => dir \in OkPaths

Below(path, dir) == HasPrefix(path, dir) /\ path # dir

\* C16: in post-order, when a directory has been yielded, every entry below
\* it within max_depth that passes the filters, and that no failure to open a
\* directory cuts off, was yielded before it; nothing below it is queued or
\* being listed, and no item yielded after it is below it.
PostOrderEmission ==
    (pc = "engine" /\ options.overall)
    => \A i \in 1..Len(out) :
          (out[i].type = "ok" /\ is_dir(out[i].path))
          => LET dir == out[i].path
             IN /\ \A path \in SourceEntries :
                      (/\ Below(path, dir)
                       /\ depth(path) <= options.max_depth
                       /\ PassesFilters(path)
                       /\ ~BelowOpenFailure(path))
                      => \E j \in 1..(i - 1) : out[j] = OkItem(path)
                /\ \A j \in (i + 1)..Len(out) :
                      out[j].type = "ok" => ~Below(out[j].path, dir)
                /\ \A k \in 1..Len(pending_paths) :
                      ~Below(pending_paths[k].path, dir)
                /\ ~(current_read_directory.open
                     /\ HasPrefix(current_read_directory.dir, dir))

\* A post-order traversal has yielded the root after a directory below it,
\* which itself came after one of its own children.
PostOrderEmissionWitness ==
    /\ pc = "engine"
    /\ options.overall
    /\ \E i, j, k \in 1..Len(out) :
          /\ i < j /\ j < k
          /\ out[i].type = "ok" /\ out[j].type = "ok" /\ out[k].type = "ok"
          /\ Below(out[i].path, out[j].path)
          /\ Below(out[j].path, out[k].path)

NoFilters ==
    options.excludes = <<>> /\ options.includes = <<>> /\ options.extensions = <<>>

\* The entry a pre-order call of inner_next pops from the queue, if any: the
\* open listing is drained first, and a failed read returns before any pop.
Dequeued(st) ==
    LET r == IF st.current_read_directory.open THEN ReadEntries(st)
             ELSE [st |-> st, err |-> FALSE]
    IN IF r.err \/ r.st.pending_paths = <<>> THEN {}
       ELSE {Head(r.st.pending_paths).path}

\* C17: in pre-order and without filters, a pull that dequeues a directory
\* returns that directory as an Ok item, and no yielded entry comes before a
\* directory it is below.
PreOrderEmission ==
    [][(pc = "engine" /\ ~options.overall /\ NoFilters)
       => /\ \A dir \in Dequeued(EngineState) :
                is_dir(dir) => out' = Append(out, OkItem(dir))
          /\ \A i, j \in 1..Len(out') :
                (i < j /\ out'[i].type = "ok" /\ out'[j].type = "ok")
                => ~Below(out'[i].path, out'[j].path)]_vars

\* The directories whose listing has an entry that cannot be read, and the
\* position of that entry.
ErrDirs ==
    {dir \in DOMAIN listing :
        \E i \in 1..Len(listing[dir].items) : listing[dir].items[i].err}

ErrIndex(dir) ==
    CHOOSE i \in 1..Len(listing[dir].items) : listing[dir].items[i].err

\* C18: when the read of a child fails in a listing, exactly one Err item is
\* yielded; right after it the same listing is open on the entries that
\* follow the failed one; and when the traversal has ended every child of
\* that directory, read before or after the failure, that is within
\* max_depth and passes the filters has been yielded.
ListingErrorRecovery ==
    \A dir \in ErrDirs :
        (pc = "engine" /\ ErrCount > 0)
        => LET items == listing[dir].items
           IN /\ ErrCount = 1
              /\ out[Len(out)].type = "err"
                 => /\ current_read_directory.open
                    /\ current_read_directory.dir = dir
                    /\ current_read_directory.rest
                          = SubSeq(items, ErrIndex(dir) + 1, Len(items))
              /\ Ended
                 => \A i \in 1..Len(items) :
                       (/\ ~items[i].err
                        /\ depth(Append(dir, items[i].name)) <= options.max_depth
                        /\ PassesFilters(Append(dir, items[i].name)))
                       => Append(dir, items[i].name) \in OkPaths

\* A traversal has ended after one Err item, on a listing whose failed entry
\* sits between two children; both children were yielded.
ListingErrorRecoveryWitness ==
    /\ pc = "engine"
    /\ Ended
    /\ ErrCount = 1
    /\ \E dir \in ErrDirs :
          LET items == listing[dir].items
              k == ErrIndex(dir)
          IN /\ 1 < k /\ k < Len(items)
             /\ Append(dir, items[k - 1].name) \in OkPaths
             /\ Append(dir, items[k + 1].name) \in OkPaths

\* The directories that cannot be opened for listing.
OpenFailDirs == {dir \in DOMAIN listing : listing[dir].openfail}

\* C19: in either mode, when a dequeued directory cannot be opened, exactly
\* one Err item is yielded; nothing below that directory is ever queued,
\* listed or yielded; and when the traversal has ended every entry outside
\* that directory that is within max_depth and passes the filters, those that
\* were pending at the failure among them, has been yielded.
OpenFailure ==
    \A dir \in OpenFailDirs :
        (pc = "engine" /\ ErrCount > 0)
        => /\ ErrCount = 1
           /\ \A path \in OkPaths : ~Below(path, dir)
           /\ \A i \in 1..Len(pending_paths) : ~Below(pending_paths[i].path, dir)
           /\ ~(current_read_directory.open
                /\ HasPrefix(current_read_directory.dir, dir))
           /\ Ended
              => \A path \in SourceEntries :
                    (/\ ~HasPrefix(path, dir)
                     /\ depth(path) <= options.max_depth
                     /\ PassesFilters(path))
                    => path \in OkPaths

\* A traversal has ended after the one Err item of a directory that cannot be
\* opened and that has an entry below it; an entry outside that directory was
\* yielded after the Err item.
OpenFailureWitness ==
    /\ pc = "engine"
    /\ Ended
    /\ ErrCount = 1
    /\ \E dir \in OpenFailDirs :
          /\ \E path \in SourceEntries : Below(path, dir)
          /\ \E i, j \in 1..Len(out) :
                /\ i < j
                /\ out[i].type = "err"
                /\ out[j].type = "ok"
                /\ ~HasPrefix(out[j].path, dir)

\* C20: the pulls return at most one item per entry of the tree and per
\* failure before they return None; the caller that keeps pulling has its
\* None by then; and every item after a None is a None.
Termination ==
    pc = "engine"
    => LET items == {i \in 1..Len(out) : out[i].type # "none"}
           most == Cardinality(SourceEntries) + 1
       IN /\ Cardinality(items) <= most
          /\ Len(out) > most => Ended
          /\ \A i, j \in 1..Len(out) :
                (i < j /\ out[i].type = "none") => out[j].type = "none"

\* The caller pulled an Ok item, an Err item and a directory below the root,
\* then a None, and pulled again.
TerminationWitness ==
    /\ pc = "engine"
    /\ ErrCount = 1
    /\ \E path \in OkPaths : is_dir(path) /\ Below(path, SourceRoot)
    /\ \E i \in 1..Len(out) : i < Len(out) /\ out[i].type = "none"

\* The destination entries that the call has changed or created so far.
ChangedSoFar ==
    {path \in DOMAIN fs : path \notin DOMAIN fs0 \/ fs[path] # fs0[path]}

\* C21: when the processing of an entry fails, replicate is left with the
\* error: every change made to the disk before the failure is still there,
\* the statistics are never printed for that call, and no step of that call
\* follows, so no later entry is processed.
MutationErrorsAbort ==
    [][/\ (LoopStep /\ pc' = "err")
          => /\ last'.err
             /\ \A path \in ChangedSoFar :
                   path \in DOMAIN fs' /\ fs'[path] = fs[path]
       /\ pc = "err"
          => /\ pc' = "start"
             /\ run' = run + 1
             /\ fs' = fs]_vars

\* A call has failed on an entry after it had changed the disk: what it had
\* changed is still there.
MutationErrorsAbortWitness ==
    /\ pc = "err"
    /\ last.kind = "entry"
    /\ last.err
    /\ ChangedSoFar # {}
    /\ stats.file_count > 0

\* C22: on a source with one traversal failure and a complete target, a call
\* that asks nothing is never aborted, and when it ends total-visited counts
\* exactly the entries that the failure does not cut off: the Err item adds
\* nothing to it and the entries yielded after it are processed.
TraversalErrorsSkipped ==
    /\ pc # "err"
    /\ pc = "done"
       => stats.file_count
             = Cardinality({path \in SourceEntries : ~BelowOpenFailure(path)})

\* A call has ended on a source whose root listing has a failed entry
\* between two children; the root and both children were counted.
TraversalErrorsSkippedWitness ==
    /\ pc = "done"
    /\ stats.file_count >= 3
    /\ \E dir \in ErrDirs :
          1 < ErrIndex(dir) /\ ErrIndex(dir) < Len(listing[dir].items)

\* C23: whenever main has returned, whatever the command and the outcome,
\* the last line it printed is the elapsed execution time.
ElapsedAlwaysReported ==
    pc = "returned"
    => /\ main.stdout # <<>>
       /\ main.stdout[Len(main.stdout)] = "Elapsed execution time"

\* C24: when some argument is --name=value, the call returns that value and
\* the index of the first such argument, whatever follows it; and when no
\* argument starts with --name it returns no value and no index.
GetOptionValueResult ==
    cli.called
    => LET flag == <<"-", "-">> \o cli.name
           valued == {i \in 0..(Len(cli.arguments) - 1) :
                         starts_with(cli.arguments[i + 1], flag \o <<"=">>)}
           named == {i \in 0..(Len(cli.arguments) - 1) :
                        starts_with(cli.arguments[i + 1], flag)}
       IN /\ valued # {}
             => LET i == CHOOSE k \in valued : \A j \in valued : k <= j
                IN cli.result
                      = [value |-> Some(SubSeq(cli.arguments[i + 1], Len(flag) + 2,
                                               Len(cli.arguments[i + 1]))),
                         index |-> Some(i)]
          /\ named = {} => cli.result = [value |-> None, index |-> None]

PendingPaths == {pending_paths[i].path : i \in 1..Len(pending_paths)}

\* The children that the entries of a listing still to be read would queue.
Queueable(dir, rest) ==
    {Append(dir, rest[i].name) :
        i \in {j \in 1..Len(rest) :
                  /\ ~rest[j].err
                  /\ Append(dir, rest[j].name) \in DOMAIN fs
                  /\ depth(Append(dir, rest[j].name)) <= options.max_depth}}

\* C25: the engine holds no listing or one listing of a directory, open on
\* a tail of its entries; after a pull that yielded a directory in pre-order
\* the open listing is that directory's, with nothing read from it; and a
\* pull that leaves another listing open than the one it found, or none,
\* without having skipped the one it found, has read that one to its end:
\* every child it had to queue is queued, yielded, filtered out or failed.
SingleOpenHandle ==
    [][pc = "engine"
       => LET old == current_read_directory
              new == current_read_directory'
              item == out'[Len(out')]
          IN /\ IF new.open
                THEN /\ is_dir(new.dir)
                     /\ ~listing[new.dir].openfail
                     /\ \E k \in 0..Len(listing[new.dir].items) :
                           new.rest = SubSeq(listing[new.dir].items, k + 1,
                                             Len(listing[new.dir].items))
                ELSE new = NoReadDir
             /\ (~options.overall /\ item.type = "ok" /\ is_dir(item.path))
                => /\ new.open
                   /\ new.dir = item.path
                   /\ new.rest = listing[item.path].items
             /\ (old.open /\ ~(new.open /\ new.dir = old.dir) /\ ~to_excludes(old.dir))
                => \A path \in Queueable(old.dir, old.rest) :
                      \/ path \in PendingPaths'
                      \/ item = OkItem(path)
                      \/ ~PassesFilters(path)
                      \/ (item.type = "err" /\ BelowOpenFailure(path))]_vars

\* In pre-order the root was yielded and its listing left open on two
\* children; the next pull yielded a directory among them and left that
\* directory's listing open, the other child being queued.
SingleOpenHandleWitness ==
    /\ pc = "engine"
    /\ ~options.overall
    /\ Len(out) >= 2
    /\ out[1] = OkItem(SourceRoot)
    /\ Len(listing[SourceRoot].items) >= 2
    /\ out[2].type = "ok"
    /\ Len(out) = 2
    /\ current_read_directory.open
    /\ current_read_directory.dir = out[2].path
    /\ pending_paths # <<>>

\* The directories from the target path up to, and without, the target root.
AncestorsOf(target_path) ==
    {SubSeq(target_path, 1, k) : k \in (Len(args.target) + 1)..(Len(target_path) - 1)}

SourceOf(target_path) == join(args.source, strip_prefix(target_path, args.target))

\* C26: with dryrun off, processing a yielded file whose target parent is
\* missing succeeds: every directory between the target root and the target
\* path whose source counterpart is a directory exists afterwards with that
\* directory's permission bits, and the file is at its target path with the
\* content of the source.
AncestorRepairOutcome ==
    [][(/\ LoopStep
        /\ ~args.dryrun
        /\ HasPrefix(last'.source_path, args.source)
        /\ is_file(last'.source_path)
        /\ is_dir(args.target)
        /\ parent(TargetOf(last'.source_path)) \notin DOMAIN fs)
       => /\ pc' = "loop"
          /\ \A dir \in AncestorsOf(TargetOf(last'.source_path)) :
                is_dir(SourceOf(dir))
                => /\ FsIsDir(fs', dir)
                   /\ fs'[dir].perm = fs[SourceOf(dir)].perm
          /\ FsIsFile(fs', TargetOf(last'.source_path))
          /\ fs'[TargetOf(last'.source_path)].content
                = fs[last'.source_path].content]_vars

NoFaults == ErrDirs = {} /\ OpenFailDirs = {}

\* C27: on a tree without failures, with no filter and no depth bound, no
\* path is yielded twice and only entries of the tree are yielded; when the
\* traversal has ended the yielded paths are the root and every entry under
\* it, in pre-order as in post-order, so both modes yield the same set.
ExactlyOnceCoverage ==
    (/\ pc = "engine"
     /\ is_dir(SourceRoot)
     /\ NoFaults
     /\ NoFilters
     /\ options.max_depth = UsizeMax)
    => /\ \A i, j \in 1..Len(out) :
             (i < j /\ out[i].type = "ok") => out[j] # out[i]
       /\ ErrCount = 0
       /\ OkPaths \subseteq SourceEntries
       /\ Ended => OkPaths = SourceEntries

\* A post-order traversal of a tree with a directory, an entry below it and
\* another child of the root has ended with no filter, bound or failure.
ExactlyOnceCoverageWitness ==
    /\ pc = "engine"
    /\ options.overall
    /\ NoFaults
    /\ NoFilters
    /\ options.max_depth = UsizeMax
    /\ Ended
    /\ Cardinality(SourceEntries) = 4
    /\ Cardinality(OkPaths) = 4
    /\ \E path \in OkPaths : depth(path) = 2

\* The directories whose listing the FilterPath or the caller discarded.
Discarded == IF last.kind \in {"rejected", "skipped"} THEN last.dirs ELSE {}

\* Every entry that the filters, the predicate and the depth bound let
\* through, and that is not below a directory that was discarded or that
\* cannot be opened, has been yielded once the traversal has ended.
OutsideKept ==
    Ended
    => \A path \in SourceEntries :
          (/\ depth(path) <= options.max_depth
           /\ PassesFilters(path)
           /\ predicate(path)
           /\ ~BelowOpenFailure(path)
           /\ \A dir \in Discarded : ~Below(path, dir))
          => path \in OkPaths

\* C28: a call of skip_current_directory by the caller leaves the queue as
\* it is and no listing open, so it changes nothing when none was open; and
\* whoever discards a listing, the exclude filter, the FilterPath or the
\* caller, no entry outside the discarded directory is lost.
PruningFrame ==
    [][pc = "engine"
       => /\ out' = out
             => /\ pending_paths' = pending_paths
                /\ offset_depth' = offset_depth
                /\ current_read_directory' = NoReadDir
          /\ OutsideKept']_vars

\* The caller discarded the listing of a directory that has an entry below
\* it, which was therefore never yielded; the traversal then ended, having
\* yielded an entry beside that directory.
PruningFrameWitness ==
    /\ pc = "engine"
    /\ last.kind = "skipped"
    /\ Ended
    /\ \E dir \in last.dirs :
          /\ \E path \in SourceEntries : Below(path, dir) /\ path \notin OkPaths
          /\ \E path \in OkPaths : ~HasPrefix(path, dir) /\ ~HasPrefix(dir, path)

====
